---- MODULE Spec2Model ----
(***************************************************************************)
(* The "Add machine" form controller of maas-ui                            *)
(* (ui/src/app/machines/views/AddMachine/AddMachineForm/AddMachineForm.js) *)
(* as a state machine: the redux store slices the component selects from,  *)
(* the component's own React state, the Formik values, and the creation    *)
(* requests that are in flight.                                            *)
(*                                                                         *)
(* JavaScript values are represented as follows.                           *)
(*   - hostnames, names and messages are TLA+ strings;                     *)
(*   - hardware addresses are sequences of one-character strings, so that  *)
(*     the regular expression is evaluated character by character;         *)
(*   - `undefined` is the record Undefined; a value that may be undefined  *)
(*     after Formik's preparation is wrapped as None / Some(v).            *)
(***************************************************************************)
EXTENDS Integers, Sequences, FiniteSets, TLC

VARIABLES
    status,         \* store: per collection "idle" | "pending" | "loaded" | "failed"
    fetching,       \* per collection that is not loaded yet: the number of
                    \* its fetches that are in flight
    items,          \* store: the data of architectures/domains/resourcePools/zones
                    \* and of defaultMinHweKernel
    machineSaved,   \* store: machine.saved
    machineSaving,  \* store: machine.saving
    machineErrors,  \* store: machine.errors
    requests,       \* creation commands sent and not yet answered
    mounted,        \* whether AddMachineForm is mounted
    powerType,      \* React state (line 80)
    resetOnSave,    \* React state (line 81)
    savingMachine,  \* React state (line 82)
    values,         \* Formik values, NoForm while the form is not rendered
    out             \* the effects emitted by the last step

vars == <<status, fetching, items, machineSaved, machineSaving, machineErrors,
          requests, mounted, powerType, resetOnSave, savingMachine, values, out>>

-----------------------------------------------------------------------------
(* Bounds of the model *)

\* the longest secondary-address list a user builds in the state machine
MaxExtraMacs == 1

\* the most creation requests in flight at once (dismissed ones included)
MaxInFlight == 2

\* the most fetches of one collection in flight at once
MaxFetches == 2

-----------------------------------------------------------------------------
(* JavaScript values *)

Undefined == [tag |-> "undefined"]

None == <<>>

Some(v) == <<v>>

RECURSIVE FindByName(_, _)
FindByName(list, name) ==
    IF list = <<>> THEN Undefined
    ELSE IF Head(list).name = name THEN Head(list)
    ELSE FindByName(Tail(list), name)

FilterBooleanBug(list) == list

\* Array.prototype.filter(Boolean): the empty string is the falsy entry
RECURSIVE FilterBoolean(_)
FilterBoolean(list) ==
    IF list = <<>> THEN <<>>
    ELSE IF Head(list) = <<>> THEN FilterBoolean(Tail(list))
    ELSE <<Head(list)>> \o FilterBoolean(Tail(list))

-----------------------------------------------------------------------------
(* Hardware addresses and the pattern of lines 35 and 45 *)

HexDigits ==
    {"0", "1", "2", "3", "4", "5", "6", "7", "8", "9",
     "A", "B", "C", "D", "E", "F", "a", "b", "c", "d", "e", "f"}

\* /^([0-9A-Fa-f]{2}:){5}([0-9A-Fa-f]{2})$/ : five groups "hh:" and a last "hh"
MatchesMacPattern(s) ==
    /\ Len(s) = 5 * 3 + 2
    /\ \A g \in 0..4 :
          /\ s[3 * g + 1] \in HexDigits
          /\ s[3 * g + 2] \in HexDigits
          /\ s[3 * g + 3] = ":"
    /\ s[16] \in HexDigits
    /\ s[17] \in HexDigits

EmptyString == <<>>

MacUpper ==
    <<"A","A",":","B","B",":","C","C",":","D","D",":","E","E",":","F","F">>

MacLower ==
    <<"0","a",":","1","b",":","2","c",":","3","d",":","4","e",":","5","f">>

NotAMac == <<"n","o","t","-","a","-","m","a","c">>

MacDashes ==
    <<"A","A","-","B","B","-","C","C","-","D","D","-","E","E","-","F","F">>

MacTooLong == MacUpper \o <<"0">>

MacBadDigit ==
    <<"A","A",":","B","B",":","C","C",":","D","D",":","E","E",":","F","G">>

\* the primary addresses a user types in the state machine
MacInputs == {EmptyString, MacUpper, NotAMac}

\* the secondary addresses a user types in the state machine
ExtraMacInputs == {EmptyString, MacLower}

\* the addresses the schema is evaluated on in SpecPure
MacSamples ==
    {EmptyString, MacUpper, MacLower, NotAMac, MacDashes, MacTooLong, MacBadDigit}

-----------------------------------------------------------------------------
(* The power-type catalog (generalSelectors.powerTypes.get, line 73) *)

IpmiType ==
    [tag |-> "object", name |-> "ipmi",
     fields |-> <<[name |-> "power_address", required |-> TRUE]>>]

ManualType == [tag |-> "object", name |-> "manual", fields |-> <<>>]

PowerTypesCatalog == <<IpmiType, ManualType>>

\* useState("") of line 80
InitialPowerType == [tag |-> "string", value |-> ""]

-----------------------------------------------------------------------------
(* Validation: Formik prepares the values, Yup applies the schema *)

NoError == ""

\* Formik hands Yup `undefined` for an empty string (TLA+ string fields)
PrepareName(v) == IF v = "" THEN None ELSE Some(v)

\* the same for a hardware address
PrepareMac(v) == IF v = EmptyString THEN None ELSE Some(v)

\* Yup.string().required(message)
Required(value, message) == IF value = None THEN <<message>> ELSE <<>>

\* Yup.string().matches(pattern, message): an undefined value passes
Matches(value, message) ==
    IF value # None /\ ~MatchesMacPattern(value[1]) THEN <<message>> ELSE <<>>

\* the message Formik keeps for a path: the first one Yup reports
FirstError(messages) == IF messages = <<>> THEN NoError ELSE Head(messages)

WhenIsBug(power_type) == power_type = Some("ipmi")

\* line 47: is: (power_type) => power_type !== "ipmi"
WhenIs(power_type) == power_type # Some("ipmi")

\* lines 44-49: the pxe_mac rule
PxeMacRule(pxe_mac, power_type) ==
    FirstError(
        Matches(pxe_mac, "Invalid MAC address")
        \o (IF WhenIs(power_type)
            THEN Required(pxe_mac, "At least one MAC address required")
            ELSE <<>>))

ExtraMacsRuleBug(extra_macs) ==
    [i \in 1..Len(extra_macs) |->
        FirstError(Matches(PrepareMac(extra_macs[1]), "Invalid MAC address"))]

\* lines 33-38: the extra_macs rule, one message per entry
ExtraMacsRule(extra_macs) ==
    [i \in 1..Len(extra_macs) |->
        FirstError(Matches(PrepareMac(extra_macs[i]), "Invalid MAC address"))]

\* usePowerParametersSchema (line 110): the rules of the variant's fields
ParametersSchema(type) == IF type.tag = "object" THEN type.fields ELSE <<>>

\* lines 29-51: the schema is the fixed rules plus the nested variant rules
generateMachineSchema(parametersSchema) == [power_parameters |-> parametersSchema]

\* line 42: the fields of the nested shape that fail their rule
PowerParametersRule(parametersSchema, power_parameters) ==
    {parametersSchema[i].name : i \in
        {j \in 1..Len(parametersSchema) :
            /\ parametersSchema[j].required
            /\ PrepareName(power_parameters[parametersSchema[j].name]) = None}}

\* the field errors of `vals` under `schema`
Validate(schema, vals) ==
    [architecture |->
        FirstError(Required(PrepareName(vals.architecture), "Architecture required")),
     domain |-> FirstError(Required(PrepareName(vals.domain), "Domain required")),
     extra_macs |-> ExtraMacsRule(vals.extra_macs),
     pool |-> FirstError(Required(PrepareName(vals.pool), "Resource pool required")),
     power_parameters |->
        PowerParametersRule(schema.power_parameters, vals.power_parameters),
     power_type |->
        FirstError(Required(PrepareName(vals.power_type), "Power type required")),
     pxe_mac |-> PxeMacRule(PrepareMac(vals.pxe_mac), PrepareName(vals.power_type)),
     zone |-> FirstError(Required(PrepareName(vals.zone), "Zone required"))]

IsValidBug(fieldErrors) == TRUE

\* Formik calls onSubmit only when no path has an error
IsValid(fieldErrors) ==
    /\ fieldErrors.architecture = NoError
    /\ fieldErrors.domain = NoError
    /\ \A i \in DOMAIN fieldErrors.extra_macs : fieldErrors.extra_macs[i] = NoError
    /\ fieldErrors.pool = NoError
    /\ fieldErrors.power_parameters = {}
    /\ fieldErrors.power_type = NoError
    /\ fieldErrors.pxe_mac = NoError
    /\ fieldErrors.zone = NoError

-----------------------------------------------------------------------------
(* The store: reference collections (lines 57-78) *)

Collections ==
    {"architectures", "defaultMinHweKernel", "domains", "hweKernels",
     "powerTypes", "resourcePools", "zones"}

ItemCollections == {"architectures", "domains", "resourcePools", "zones"}

\* the collections whose data the component reads (lines 57, 61, 67, 75, 77)
DataCollections == ItemCollections \cup {"defaultMinHweKernel"}

\* the data of a collection before it is loaded
EmptyData(c) == IF c = "defaultMinHweKernel" THEN "" ELSE <<>>

\* what a fetch of a collection may deliver
ItemChoices(c) ==
    CASE c = "architectures" -> {<<"amd64/generic">>}
      [] c = "domains" -> {<<[name |-> "maas"]>>}
      [] c = "resourcePools" -> {<<[name |-> "default"]>>}
      [] c = "zones" -> {<<[name |-> "default"]>>}
      [] c = "defaultMinHweKernel" -> {"ga-20.04"}
      [] OTHER -> {<<>>}

architecturesLoaded == status["architectures"] = "loaded"
defaultMinHweKernelLoaded == status["defaultMinHweKernel"] = "loaded"
domainsLoaded == status["domains"] = "loaded"
hweKernelsLoaded == status["hweKernels"] = "loaded"
powerTypesLoaded == status["powerTypes"] = "loaded"
resourcePoolsLoaded == status["resourcePools"] = "loaded"
zonesLoaded == status["zones"] = "loaded"

architectures == items["architectures"]
domains == items["domains"]
resourcePools == items["resourcePools"]
zones == items["zones"]
powerTypes == IF powerTypesLoaded THEN PowerTypesCatalog ELSE <<>>
defaultMinHweKernel == items["defaultMinHweKernel"]

allLoadedBug ==
    /\ architecturesLoaded
    /\ defaultMinHweKernelLoaded
    /\ domainsLoaded
    /\ hweKernelsLoaded
    /\ powerTypesLoaded
    /\ resourcePoolsLoaded

\* lines 117-124
allLoaded ==
    /\ architecturesLoaded
    /\ defaultMinHweKernelLoaded
    /\ domainsLoaded
    /\ hweKernelsLoaded
    /\ powerTypesLoaded
    /\ resourcePoolsLoaded
    /\ zonesLoaded

\* line 137: the spinner is rendered instead of the form until allLoaded
FormShown == mounted /\ allLoaded

-----------------------------------------------------------------------------
(* The store: machine.saved / saving / errors (lines 70-72) *)

NoErrors == [tag |-> "object", entries |-> <<>>]

\* the failure payload the creation endpoint answers with in the state machine
ErrorPayloads ==
    {[tag |-> "object",
      entries |-> <<[key |-> "hostname", value |-> "Hostname in use"],
                    [key |-> "pool", value |-> "Pool not found"]>>]}

RECURSIVE AppendMessagesBug(_, _)
AppendMessagesBug(acc, entries) ==
    IF entries = <<>> THEN acc
    ELSE AppendMessagesBug(acc \o Head(entries).value, Tail(entries))

\* lines 130-132: errors = errors + `${machineErrors[key]} ` for every key
RECURSIVE AppendMessages(_, _)
AppendMessages(acc, entries) ==
    IF entries = <<>> THEN acc
    ELSE AppendMessages((acc \o Head(entries).value) \o " ", Tail(entries))

ErrorsOfBug(payload) ==
    IF payload.tag = "string" /\ payload.value # "" THEN payload.value
    ELSE IF payload.tag = "object" THEN AppendMessagesBug("", payload.entries)
    ELSE ""

\* lines 126-133: a non-empty string is shown as it is, the values of an
\* object are appended in key order, anything else leaves errors empty
ErrorsOf(payload) ==
    IF payload.tag = "string" /\ payload.value # "" THEN payload.value
    ELSE IF payload.tag = "object" THEN AppendMessages("", payload.entries)
    ELSE ""

errors == ErrorsOf(machineErrors)

-----------------------------------------------------------------------------
(* The component: derived values of one render *)

NoForm == [tag |-> "none"]

\* useState(false) of line 82, and the strings line 183 stores
NotSaving == [tag |-> "boolean", value |-> FALSE]

Saving(name) == [tag |-> "string", value |-> name]

\* the template literal of line 106
MessageOf(saving) ==
    (IF saving.tag = "boolean" THEN "false" ELSE saving.value)
        \o " added successfully."

\* useAllPowerParameters (line 115): every parameter of every type, empty
allPowerParameters == [power_address |-> ""]

\* lines 147-158
initialValues ==
    [architecture |-> IF Len(architectures) # 0 THEN architectures[1] ELSE "",
     domain |-> IF Len(domains) # 0 THEN domains[1].name ELSE "",
     extra_macs |-> <<>>,
     hostname |-> "",
     min_hwe_kernel |-> IF defaultMinHweKernel # "" THEN defaultMinHweKernel ELSE "",
     pool |-> IF Len(resourcePools) # 0 THEN resourcePools[1].name ELSE "",
     power_parameters |-> allPowerParameters,
     power_type |-> "",
     pxe_mac |-> EmptyString,
     zone |-> IF Len(zones) # 0 THEN zones[1].name ELSE ""]

\* lines 110-113
MachineSchema == generateMachineSchema(ParametersSchema(powerType))

onValuesChangedBug(vals, catalog) == powerType

\* lines 185-190: the value setPowerType receives
onValuesChanged(vals, catalog) == FindByName(catalog, vals.power_type)

\* line 194
savedRedirect(reset) == IF reset THEN None ELSE Some("/machines")

\* formatPowerParameters (lines 173-177): the parameters of the given variant
formatPowerParameters(type, parameters) ==
    [variant |-> IF type.tag = "object" THEN type.name ELSE "",
     parameters |->
        {<<ParametersSchema(type)[i].name,
           parameters[ParametersSchema(type)[i].name]>> :
            i \in 1..Len(ParametersSchema(type))}]

CommandHostnameBug(vals) == IF vals.hostname # "" THEN vals.hostname ELSE "Machine"

\* line 170: the hostname of the command
CommandHostname(vals) == vals.hostname

\* lines 166-181: the command built from the submitted values
Params(vals) ==
    [architecture |-> vals.architecture,
     domain |-> FindByName(domains, vals.domain),
     extra_macs |-> FilterBoolean(vals.extra_macs),
     hostname |-> CommandHostname(vals),
     min_hwe_kernel |-> vals.min_hwe_kernel,
     pool |-> FindByName(resourcePools, vals.pool),
     power_parameters |-> formatPowerParameters(powerType, vals.power_parameters),
     power_type |-> vals.power_type,
     pxe_mac |-> vals.pxe_mac,
     zone |-> FindByName(zones, vals.zone)]

\* line 183
SavingName(vals) == IF vals.hostname # "" THEN vals.hostname ELSE "Machine"

-----------------------------------------------------------------------------
(* The effects of one step *)

Quiet ==
    [dispatched |-> None, navigated |-> None, message |-> None,
     validated |-> None, fetched |-> {}, answered |-> None, errors |-> None]

\* every request in flight belongs to a dismissed form from now on
Orphaned(reqs) ==
    [i \in 1..Len(reqs) |->
        [reqs[i] EXCEPT !.orphan = TRUE, !.button = "none", !.hostname = ""]]

Without(reqs, i) == SubSeq(reqs, 1, i - 1) \o SubSeq(reqs, i + 1, Len(reqs))

\* the component's state is gone once it is unmounted
Unmounted ==
    /\ mounted' = FALSE
    /\ powerType' = InitialPowerType
    /\ resetOnSave' = FALSE
    /\ savingMachine' = NotSaving
    /\ values' = NoForm

\* machineActions.cleanup as the store reduces it
StoreCleanup ==
    /\ machineSaved' = FALSE
    /\ machineSaving' = FALSE
    /\ machineErrors' = NoErrors

-----------------------------------------------------------------------------
(* Loading the reference collections *)

\* the fetch actions dispatched by the fetch effect (lines 86-92): one for
\* each collection, whatever the store holds
Dispatched == Collections

\* The store on a fetch action: a request goes out.  A collection that is
\* loaded stays loaded, and the request that brings its data again is not
\* followed; any other collection is pending with one more request in flight.
StatusOnFetch(c) == IF status[c] = "loaded" THEN "loaded" ELSE "pending"

FetchingOnFetch(c) ==
    IF status[c] = "loaded" THEN fetching[c] ELSE fetching[c] + 1

\* lines 85-93: the fetch effect of a mount dispatches every fetch action
FetchAll ==
    /\ status' = [c \in Dispatched |-> StatusOnFetch(c)]
    /\ fetching' = [c \in Dispatched |-> FetchingOnFetch(c)]

\* useAddMessage (lines 103-108): when the condition holds the message is
\* added, the callback runs and the cleanup action is dispatched
useAddMessage(addCondition) == [added |-> addCondition, cleanup |-> addCondition]

\* What the component does when it renders with machineSaved true:
\* FormikForm redirects when savedRedirect is set, else its content resets the
\* values when resetOnSave is set; then the effects of lines 95-99 and
\* 103-108 run and the component renders again.
SavedRender(reset, shown) ==
    LET first == shown /\ savedRedirect(reset) # None
        reset2 == IF reset THEN FALSE ELSE reset
        added == useAddMessage(TRUE)
        saved2 == ~added.cleanup
        second == shown /\ saved2 /\ savedRedirect(reset2) # None
    IN  [navigated |-> first \/ second,
         resetForm |-> shown /\ ~first /\ reset,
         resetOnSave |-> reset2,
         saved |-> saved2]

-----------------------------------------------------------------------------
(* Initial state: the store is empty and the form has not been opened *)

Init ==
    /\ status = [c \in Collections |-> "idle"]
    /\ fetching = [c \in Collections |-> 0]
    /\ items = [c \in DataCollections |-> EmptyData(c)]
    /\ machineSaved = FALSE
    /\ machineSaving = FALSE
    /\ machineErrors = NoErrors
    /\ requests = <<>>
    /\ mounted = FALSE
    /\ powerType = InitialPowerType
    /\ resetOnSave = FALSE
    /\ savingMachine = NotSaving
    /\ values = NoForm
    /\ out = Quiet

-----------------------------------------------------------------------------
(* Activation and dismissal *)

\* The route renders AddMachineForm: state of lines 80-82, the fetch effect,
\* and the first render with whatever the store holds.
Activate ==
    /\ ~mounted
    /\ \A c \in Collections : fetching[c] < MaxFetches
    /\ FetchAll
    /\ UNCHANGED <<items, requests>>
    /\ IF machineSaved
       THEN LET o == SavedRender(FALSE, allLoaded) IN
            /\ out' = [Quiet EXCEPT
                         !.fetched = Dispatched,
                         !.message = Some(MessageOf(NotSaving)),
                         !.navigated =
                            IF o.navigated THEN Some("/machines") ELSE None]
            /\ IF o.navigated
               THEN Unmounted /\ StoreCleanup
               ELSE /\ mounted' = TRUE
                    /\ machineSaved' = o.saved
                    /\ machineSaving' = IF o.saved THEN machineSaving ELSE FALSE
                    /\ machineErrors' = IF o.saved THEN machineErrors ELSE NoErrors
                    /\ values' = IF allLoaded THEN initialValues ELSE NoForm
                    /\ powerType' =
                          IF allLoaded
                          THEN onValuesChanged(initialValues, powerTypes)
                          ELSE InitialPowerType
                    /\ resetOnSave' = FALSE
                    /\ savingMachine' = NotSaving
       ELSE /\ out' = [Quiet EXCEPT
                         !.fetched = Dispatched]
            /\ mounted' = TRUE
            /\ values' = IF allLoaded THEN initialValues ELSE NoForm
            /\ powerType' =
                  IF allLoaded
                  THEN onValuesChanged(initialValues, powerTypes)
                  ELSE InitialPowerType
            /\ resetOnSave' = FALSE
            /\ savingMachine' = NotSaving
            /\ UNCHANGED <<machineSaved, machineSaving, machineErrors>>

\* The user clicks Cancel: onCancel (line 159) pushes /machines, the
\* component unmounts and FormikForm dispatches the cleanup of line 145.
\* The button is part of the form, whatever the store's saving flag.
Cancel ==
    /\ FormShown
    /\ Unmounted
    /\ StoreCleanup
    /\ requests' = Orphaned(requests)
    /\ out' = [Quiet EXCEPT !.navigated = Some("/machines")]
    /\ UNCHANGED <<status, fetching, items>>

\* The user leaves the page by another route: the component unmounts, and
\* FormikForm, if it was rendered, dispatches the cleanup of line 145.
Dismiss ==
    /\ mounted
    /\ Unmounted
    /\ IF allLoaded
       THEN StoreCleanup
       ELSE UNCHANGED <<machineSaved, machineSaving, machineErrors>>
    /\ requests' = Orphaned(requests)
    /\ out' = Quiet
    /\ UNCHANGED <<status, fetching, items>>

-----------------------------------------------------------------------------
(* Completion of the fetches *)

\* A fetch delivers its collection; when it was the last one, the form is
\* rendered with the initial values and onValuesChanged runs.  The other
\* requests for the collection bring the same data and are followed no more.
FetchDone(c, content) ==
    /\ fetching[c] > 0
    /\ status' = [status EXCEPT ![c] = "loaded"]
    /\ fetching' = [fetching EXCEPT ![c] = 0]
    /\ items' = IF c \in DataCollections THEN [items EXCEPT ![c] = content] ELSE items
    /\ IF mounted /\ allLoaded'
       THEN /\ values' = initialValues'
            /\ powerType' = onValuesChanged(initialValues', powerTypes')
       ELSE UNCHANGED <<values, powerType>>
    /\ out' = Quiet
    /\ UNCHANGED <<machineSaved, machineSaving, machineErrors, requests, mounted,
                   resetOnSave, savingMachine>>

\* A fetch fails: the collection stays not loaded, and it has failed once no
\* other request for it is in flight.
FetchFail(c) ==
    /\ fetching[c] > 0
    /\ status' = [status EXCEPT ![c] =
                     IF fetching[c] = 1 THEN "failed" ELSE "pending"]
    /\ fetching' = [fetching EXCEPT ![c] = fetching[c] - 1]
    /\ out' = Quiet
    /\ UNCHANGED <<items, machineSaved, machineSaving, machineErrors, requests,
                   mounted, powerType, resetOnSave, savingMachine, values>>

\* The backend drops the first record of a loaded collection (the model lets
\* this happen to the domains): the store follows, the values already in the
\* form stay as they are.
ReferenceRemoved(c) ==
    /\ c \in ItemCollections
    /\ status[c] = "loaded"
    /\ items[c] # <<>>
    /\ items' = [items EXCEPT ![c] = Tail(items[c])]
    /\ out' = Quiet
    /\ UNCHANGED <<status, fetching, machineSaved, machineSaving, machineErrors,
                   requests, mounted, powerType, resetOnSave, savingMachine, values>>

-----------------------------------------------------------------------------
(* Editing *)

Hostnames == {"", "node1"}

PowerAddresses == {"", "10.0.0.1"}

\* any change of the values runs onValuesChanged (lines 185-190), also
\* while a save is in progress
Edit(newValues) ==
    /\ FormShown
    /\ values' = newValues
    /\ powerType' = onValuesChanged(newValues, powerTypes)
    /\ out' = Quiet
    /\ UNCHANGED <<status, fetching, items, machineSaved, machineSaving,
                   machineErrors, requests, mounted, resetOnSave, savingMachine>>

SelectPowerType(name) ==
    /\ FormShown
    /\ \E i \in 1..Len(powerTypes) : powerTypes[i].name = name
    /\ Edit([values EXCEPT !.power_type = name])

TypePxeMac(mac) ==
    /\ FormShown
    /\ Edit([values EXCEPT !.pxe_mac = mac])

AddExtraMac ==
    /\ FormShown
    /\ Len(values.extra_macs) < MaxExtraMacs
    /\ Edit([values EXCEPT !.extra_macs = Append(@, EmptyString)])

TypeExtraMac(i, mac) ==
    /\ FormShown
    /\ i \in 1..Len(values.extra_macs)
    /\ Edit([values EXCEPT !.extra_macs[i] = mac])

RemoveExtraMac(i) ==
    /\ FormShown
    /\ i \in 1..Len(values.extra_macs)
    /\ Edit([values EXCEPT !.extra_macs = Without(@, i)])

TypeHostname(name) ==
    /\ FormShown
    /\ Edit([values EXCEPT !.hostname = name])

TypePowerAddress(address) ==
    /\ FormShown
    /\ Edit([values EXCEPT !.power_parameters.power_address = address])

-----------------------------------------------------------------------------
(* Submitting *)

Buttons == {"save", "saveAndAddAnother"}

\* A submit: "Save and add another" first runs secondarySubmit (line 195);
\* Formik validates the values against validationSchema (line 198) and calls
\* onSubmit (lines 165-184) when no field has an error.  The buttons are
\* disabled while a save is in progress, and the secondary button also while
\* the values are invalid; a submit of invalid values is the Enter key.
Submit(button) ==
    LET fieldErrors == Validate(MachineSchema, values)
        checked == Some([schema |-> MachineSchema, fieldErrors |-> fieldErrors,
                         button |-> button])
    IN  /\ FormShown
        /\ ~machineSaving
        /\ Len(requests) < MaxInFlight
        /\ button \in Buttons
        /\ button = "saveAndAddAnother" => IsValid(fieldErrors)
        /\ resetOnSave' = IF button = "saveAndAddAnother" THEN TRUE ELSE resetOnSave
        /\ IF IsValid(fieldErrors)
           THEN /\ requests' = Append(requests,
                                  [hostname |-> values.hostname,
                                   button |-> button, orphan |-> FALSE])
                /\ machineSaving' = TRUE
                /\ machineSaved' = FALSE
                /\ savingMachine' = Saving(SavingName(values))
                /\ out' = [Quiet EXCEPT !.validated = checked,
                                        !.dispatched = Some(Params(values))]
           ELSE /\ out' = [Quiet EXCEPT !.validated = checked]
                /\ UNCHANGED <<requests, machineSaving, machineSaved, savingMachine>>
        /\ UNCHANGED <<status, fetching, items, machineErrors, mounted, powerType,
                       values>>

\* The endpoint acknowledges request i: the store sets saved; a mounted
\* component renders with it and runs its effects.
SaveAck(i) ==
    LET o == SavedRender(resetOnSave, FormShown)
        newValues == IF o.resetForm THEN initialValues ELSE values
    IN  /\ i \in 1..Len(requests)
        /\ UNCHANGED <<status, fetching, items>>
        /\ IF mounted
           THEN /\ out' = [Quiet EXCEPT
                             !.answered = Some(requests[i]),
                             !.message = Some(MessageOf(savingMachine)),
                             !.navigated =
                                IF o.navigated THEN Some("/machines") ELSE None]
                /\ IF o.navigated
                   THEN /\ Unmounted
                        /\ StoreCleanup
                        /\ requests' = Orphaned(Without(requests, i))
                   ELSE /\ requests' = Without(requests, i)
                        /\ machineSaved' = o.saved
                        /\ machineSaving' = FALSE
                        /\ machineErrors' = NoErrors
                        /\ values' = newValues
                        /\ powerType' =
                              IF FormShown
                              THEN onValuesChanged(newValues, powerTypes)
                              ELSE powerType
                        /\ resetOnSave' = o.resetOnSave
                        /\ savingMachine' = NotSaving
                        /\ mounted' = TRUE
           ELSE /\ out' = [Quiet EXCEPT !.answered = Some(requests[i])]
                /\ requests' = Without(requests, i)
                /\ machineSaved' = TRUE
                /\ machineSaving' = FALSE
                /\ machineErrors' = NoErrors
                /\ UNCHANGED <<mounted, powerType, resetOnSave, savingMachine, values>>

\* The endpoint rejects request i with a payload: the store keeps it in
\* machine.errors, from which the component derives `errors`.
SaveFail(i, payload) ==
    /\ i \in 1..Len(requests)
    /\ requests' = Without(requests, i)
    /\ machineErrors' = payload
    /\ machineSaving' = FALSE
    /\ out' = [Quiet EXCEPT
                 !.answered = Some(requests[i]),
                 !.errors = IF FormShown THEN Some(ErrorsOf(payload)) ELSE None]
    /\ UNCHANGED <<status, fetching, items, machineSaved, mounted, powerType,
                   resetOnSave, savingMachine, values>>

-----------------------------------------------------------------------------

Next ==
    \/ Activate
    \/ Cancel
    \/ Dismiss
    \/ \E c \in Collections : \E content \in ItemChoices(c) : FetchDone(c, content)
    \/ \E c \in Collections : FetchFail(c)
    \/ \E c \in {"domains"} : ReferenceRemoved(c)
    \/ \E name \in {"ipmi", "manual"} : SelectPowerType(name)
    \/ \E mac \in MacInputs : TypePxeMac(mac)
    \/ AddExtraMac
    \/ \E i \in 1..MaxExtraMacs + 1 : \E mac \in ExtraMacInputs : TypeExtraMac(i, mac)
    \/ \E i \in 1..MaxExtraMacs + 1 : RemoveExtraMac(i)
    \/ \E name \in Hostnames : TypeHostname(name)
    \/ \E address \in PowerAddresses : TypePowerAddress(address)
    \/ \E button \in Buttons : Submit(button)
    \/ \E i \in 1..MaxInFlight + 1 : SaveAck(i)
    \/ \E i \in 1..MaxInFlight + 1 : \E payload \in ErrorPayloads : SaveFail(i, payload)

Spec == Init /\ [][Next]_vars

-----------------------------------------------------------------------------
(* The schema, the error string and the command on their own: the form is  *)
(* shown with values and a failure payload drawn from sample sets; the     *)
(* values are validated, the error string is rendered, the power type is   *)
(* changed and the form is submitted.                                      *)

\* the longest secondary-address list the schema is evaluated on
MaxSchemaMacs == 2

PowerTypeSamples == {"", "ipmi", "manual", "virsh", "IPMI"}

\* the power types the form starts from: none, or one of the catalog
KnownPowerTypes ==
    {""} \cup {PowerTypesCatalog[i].name : i \in 1..Len(PowerTypesCatalog)}

ExtraMacSamples == {EmptyString, MacUpper, MacLower, NotAMac}

RECURSIVE ListsUpTo(_, _)
ListsUpTo(S, n) ==
    IF n = 0 THEN {<<>>}
    ELSE ListsUpTo(S, n - 1)
         \cup {Append(l, x) : l \in {m \in ListsUpTo(S, n - 1) : Len(m) = n - 1},
                              x \in S}

PayloadSamples ==
    ErrorPayloads
    \cup {NoErrors,
          [tag |-> "string", value |-> "Machine already exists"],
          [tag |-> "null"],
          [tag |-> "string", value |-> ""],
          [tag |-> "object",
           entries |-> <<[key |-> "pool", value |-> "Pool not found"]>>],
          [tag |-> "object",
           entries |-> <<[key |-> "pool", value |-> "Pool not found"],
                         [key |-> "hostname", value |-> "Hostname in use"]>>]}

SampleItems ==
    [c \in DataCollections |->
        CHOOSE content \in ItemChoices(c) : content # EmptyData(c)]

PureInit ==
    /\ status = [c \in Collections |-> "loaded"]
    /\ fetching = [c \in Collections |-> 0]
    /\ items = SampleItems
    /\ machineSaved = FALSE
    /\ machineSaving = FALSE
    /\ machineErrors \in PayloadSamples
    /\ requests = <<>>
    /\ mounted = TRUE
    /\ resetOnSave = FALSE
    /\ savingMachine = NotSaving
    /\ \E type \in KnownPowerTypes, mac \in MacSamples,
          macs \in ListsUpTo(ExtraMacSamples, MaxSchemaMacs),
          address \in PowerAddresses :
          values = [architecture |-> SampleItems["architectures"][1],
                    domain |-> SampleItems["domains"][1].name,
                    extra_macs |-> macs,
                    hostname |-> "",
                    min_hwe_kernel |-> SampleItems["defaultMinHweKernel"],
                    pool |-> SampleItems["resourcePools"][1].name,
                    power_parameters |-> [power_address |-> address],
                    power_type |-> type,
                    pxe_mac |-> mac,
                    zone |-> SampleItems["zones"][1].name]
    /\ powerType = FindByName(PowerTypesCatalog, values.power_type)
    /\ out = Quiet

\* Formik validates the values against the schema of this render
SchemaValidate ==
    /\ FormShown
    /\ out' = [Quiet EXCEPT
                 !.validated = Some([schema |-> MachineSchema,
                                     fieldErrors |-> Validate(MachineSchema, values),
                                     button |-> "none"])]
    /\ UNCHANGED <<status, fetching, items, machineSaved, machineSaving,
                   machineErrors, requests, mounted, powerType, resetOnSave,
                   savingMachine, values>>

\* the render computes the errors prop of line 146
RenderErrors ==
    /\ FormShown
    /\ out' = [Quiet EXCEPT !.errors = Some(errors)]
    /\ UNCHANGED <<status, fetching, items, machineSaved, machineSaving,
                   machineErrors, requests, mounted, powerType, resetOnSave,
                   savingMachine, values>>

\* the power-type selector changes to a sampled name, which the catalog may
\* not hold; onValuesChanged (lines 185-190) runs as for any other edit
ChangePowerType(name) ==
    /\ FormShown
    /\ Edit([values EXCEPT !.power_type = name])

PureNext ==
    \/ SchemaValidate
    \/ RenderErrors
    \/ \E name \in PowerTypeSamples : ChangePowerType(name)
    \/ \E button \in Buttons : Submit(button)

SpecPure == PureInit /\ [][PureNext]_vars

-----------------------------------------------------------------------------
(* The default values on their own: the store holds collections of every   *)
(* shape (empty, one record, several records), the zones possibly still    *)
(* being fetched, and the form is opened, completed by the last fetch, and *)
(* dismissed.                                                              *)

\* the longest collection the store holds in SpecDefaults
MaxItems == 2

ArchitectureNames == <<"amd64/generic", "arm64/generic", "i386/generic">>

\* the default kernels the store may hold: none, or a release
KernelSamples == {"", "ga-20.04"}

RecordNames(c) ==
    IF c = "domains" THEN <<"maas", "lab", "edge">>
    ELSE <<"default", "second", "third">>

\* the contents a collection may have: empty, or a run of the names
ItemSamples(c) ==
    {<<>>}
    \cup {IF c = "architectures"
          THEN SubSeq(ArchitectureNames, k, n)
          ELSE [i \in 1..(n - k + 1) |-> [name |-> RecordNames(c)[k + i - 1]]] :
          k \in 1..MaxItems, n \in 1..MaxItems}

DefaultsInit ==
    /\ \E zonesStatus \in {"loaded", "pending"} :
          /\ status = [c \in Collections |->
                          IF c = "zones" THEN zonesStatus ELSE "loaded"]
          /\ fetching = [c \in Collections |->
                          IF c = "zones" /\ zonesStatus = "pending" THEN 1 ELSE 0]
          /\ \E a \in ItemSamples("architectures"), d \in ItemSamples("domains"),
                p \in ItemSamples("resourcePools"),
                z \in IF zonesStatus = "pending" THEN {<<>>} ELSE ItemSamples("zones"),
                k \in KernelSamples :
                items = [c \in DataCollections |->
                            CASE c = "architectures" -> a
                              [] c = "domains" -> d
                              [] c = "resourcePools" -> p
                              [] c = "defaultMinHweKernel" -> k
                              [] OTHER -> z]
    /\ machineSaved = FALSE
    /\ machineSaving = FALSE
    /\ machineErrors = NoErrors
    /\ requests = <<>>
    /\ mounted = FALSE
    /\ powerType = InitialPowerType
    /\ resetOnSave = FALSE
    /\ savingMachine = NotSaving
    /\ values = NoForm
    /\ out = Quiet

DefaultsNext ==
    \/ Activate
    \/ Cancel
    \/ Dismiss
    \/ \E content \in ItemSamples("zones") : FetchDone("zones", content)

SpecDefaults == DefaultsInit /\ [][DefaultsNext]_vars

-----------------------------------------------------------------------------
(* Properties *)

\* no path of the field errors carries a message
NoFieldError(fieldErrors) ==
    /\ \A path \in {"architecture", "domain", "pool", "power_type", "pxe_mac", "zone"} :
          fieldErrors[path] = NoError
    /\ \A i \in 1..Len(fieldErrors.extra_macs) : fieldErrors.extra_macs[i] = NoError
    /\ fieldErrors.power_parameters = {}

\* the last step was a submit / an acknowledgement handled by the mounted form
Submitted == out.validated # None /\ out.validated[1].button \in Buttons

Acknowledged == out.answered # None /\ out.message # None

\* C1: a creation command is dispatched only by a submit whose values passed
\* validation against the schema of the current render; a submit whose
\* validation fails dispatches nothing and leaves the form ready (shown,
\* no save in progress).
C1_DispatchOnlyAfterValidation ==
    /\ out.dispatched # None =>
          /\ Submitted
          /\ out.validated[1].schema = MachineSchema
          /\ NoFieldError(out.validated[1].fieldErrors)
    /\ (Submitted /\ ~NoFieldError(out.validated[1].fieldErrors)) =>
          /\ out.dispatched = None
          /\ FormShown
          /\ ~machineSaving

C1_Witness ==
    /\ out.dispatched # None
    /\ machineSaving
    /\ values.power_type = "ipmi"

\* C2: the form exists, is validated or submitted only while every required
\* collection is loaded; while one is pending or failed only the spinner is
\* rendered and no error is passed to the form.
C2_FormOnlyWhenAllLoaded ==
    /\ values # NoForm => mounted /\ \A c \in Collections : status[c] = "loaded"
    /\ (\E c \in Collections : status[c] # "loaded") =>
          /\ values = NoForm
          /\ out.validated = None
          /\ out.dispatched = None
          /\ out.errors = None
          /\ errors = ""

C2_Witness ==
    /\ mounted
    /\ status["zones"] = "failed"
    /\ \A c \in Collections \ {"zones"} : status[c] = "loaded"
    /\ values = NoForm

\* the nested rules of the variant named by a power-type value
RulesNamedBy(name) ==
    LET named == {i \in 1..Len(PowerTypesCatalog) : PowerTypesCatalog[i].name = name}
    IN  IF named = {} THEN <<>>
        ELSE PowerTypesCatalog[CHOOSE i \in named : TRUE].fields

\* C3: whenever a submit is validated, the schema in force carries the nested
\* rules of the variant named by the power-type value in the form, never
\* those of a variant selected before.
C3_SchemaOfCurrentVariant ==
    Submitted =>
        out.validated[1].schema.power_parameters = RulesNamedBy(values.power_type)

C3_Witness ==
    /\ Submitted
    /\ values.power_type = "manual"
    /\ values.power_parameters.power_address = ""
    /\ out.dispatched # None

\* C4: resetOnSave is decided per submission: an acknowledged submission made
\* with "save" navigates away, one made with "save and add another" resets
\* the form and does not navigate, whatever happened to earlier submissions.
C4_ResetOnSavePerSubmission ==
    (Acknowledged /\ ~out.answered[1].orphan) =>
        /\ out.answered[1].button = "save" => out.navigated = Some("/machines")
        /\ out.answered[1].button = "saveAndAddAnother" =>
              /\ out.navigated = None
              /\ values = initialValues

\* C5: when a submission made with resetOnSave set is acknowledged, the form
\* is ready again with the default values and nothing navigates.
C5_ResetWithoutNavigation ==
    (/\ Acknowledged
     /\ ~out.answered[1].orphan
     /\ out.answered[1].button = "saveAndAddAnother") =>
        /\ out.navigated = None
        /\ FormShown
        /\ values = initialValues
        /\ ~machineSaving
        /\ ~machineSaved
        /\ ~resetOnSave

\* C6: a command is dispatched only when the domain, the resource pool and
\* the zone named in the values are found in the loaded collections.
C6_NoDispatchOnFailedLookup ==
    out.dispatched # None =>
        /\ out.dispatched[1].domain # Undefined
        /\ out.dispatched[1].pool # Undefined
        /\ out.dispatched[1].zone # Undefined

\* C7: the answer to a submission whose form was dismissed changes nothing:
\* the store does not become saved or failed, and no notification or
\* navigation is emitted for it, now or when the form is opened again.
C7_LateAnswerIgnored ==
    /\ (out.answered # None /\ out.answered[1].orphan) =>
          /\ ~machineSaved
          /\ machineErrors = NoErrors
          /\ out.message = None
          /\ out.navigated = None
    /\ out.message # None => (out.answered # None /\ ~out.answered[1].orphan)
    /\ ~mounted => (~machineSaved /\ machineErrors = NoErrors)

\* C10: no collection ever has two fetches in flight, whatever the sequence
\* of activations and dismissals: a fetch is never issued for a collection
\* whose earlier fetch has not completed.
C10_NoDuplicateFetch == \A c \in Collections : fetching[c] <= 1

-----------------------------------------------------------------------------
(* Properties of the schema and of the error string (SpecPure) *)

\* C8: the primary address is accepted exactly when it matches the pattern,
\* or it is empty and the power type in the form is "ipmi".
C8_PrimaryAddressRule ==
    out.validated # None =>
        (out.validated[1].fieldErrors.pxe_mac = NoError
            <=> \/ MatchesMacPattern(values.pxe_mac)
                \/ values.pxe_mac = EmptyString /\ values.power_type = "ipmi")

C8_Witness ==
    /\ out.validated # None
    /\ values.pxe_mac = EmptyString
    /\ values.power_type = "ipmi"
    /\ out.validated[1].fieldErrors.pxe_mac = NoError

\* every message followed by one space, in the order of the mapping
RECURSIVE EachFollowedBySpace(_)
EachFollowedBySpace(entries) ==
    IF entries = <<>> THEN ""
    ELSE (Head(entries).value \o " ") \o EachFollowedBySpace(Tail(entries))

\* C9: the displayed error string is the single message verbatim, or every
\* message of the mapping followed by one space in iteration order, or empty
\* without a payload; {pool: "Pool not found"} displays as "Pool not found ".
C9_DisplayedErrorString ==
    out.errors # None =>
        /\ machineErrors.tag = "string" => out.errors[1] = machineErrors.value
        /\ machineErrors.tag = "object" =>
              out.errors[1] = EachFollowedBySpace(machineErrors.entries)
        /\ machineErrors.tag = "null" => out.errors[1] = ""
        /\ machineErrors = NoErrors => out.errors[1] = ""
        /\ machineErrors =
              [tag |-> "object",
               entries |-> <<[key |-> "pool", value |-> "Pool not found"]>>]
              => out.errors[1] = "Pool not found "

C9_Witness ==
    /\ out.errors = Some("Pool not found Hostname in use ")
    /\ Len(machineErrors.entries) = 2

-----------------------------------------------------------------------------
(* Properties of the default values (SpecDefaults) *)

\* the first item of a list of strings, the empty value for an empty list
FirstOrEmpty(list) == IF list = <<>> THEN "" ELSE list[1]

\* the name of the first record of a list, the empty value for an empty list
FirstNameOrEmpty(list) == IF list = <<>> THEN "" ELSE list[1].name

\* the form has just become ready: it was not rendered and now it is
BecomesReady == values = NoForm /\ values' # NoForm

\* C11: when the form becomes ready, each required selector (architecture,
\* domain, resource pool, zone, power type) holds the first item of its
\* collection when that collection is non-empty and the empty value otherwise.
C11_DefaultsOnReady ==
    [][BecomesReady =>
          /\ values'.architecture = FirstOrEmpty(architectures')
          /\ values'.domain = FirstNameOrEmpty(domains')
          /\ values'.pool = FirstNameOrEmpty(resourcePools')
          /\ values'.zone = FirstNameOrEmpty(zones')
          /\ values'.power_type = FirstNameOrEmpty(powerTypes')]_vars

-----------------------------------------------------------------------------
(* The variant lookup *)

\* no variant of the loaded catalog has this name
NotInCatalog(name) == \A i \in 1..Len(powerTypes) : powerTypes[i].name # name

-----------------------------------------------------------------------------
(* Properties of the success notification *)

\* the notification for a submission made with the given hostname
NotificationFor(hostname) ==
    (IF hostname # "" THEN hostname ELSE "Machine") \o " added successfully."

\* C13: a success notification is emitted only for the acknowledged submission
\* of the form that is open, and it names the hostname entered for that
\* submission, or "Machine" when the hostname was left empty.
C13_NotificationNamesSaved ==
    out.message # None =>
        /\ out.answered # None
        /\ ~out.answered[1].orphan
        /\ out.message[1] = NotificationFor(out.answered[1].hostname)

-----------------------------------------------------------------------------
(* Properties of the secondary-address rule (SpecPure) *)

\* the positions of the secondary-address list that carry a field error
ErrorPositions(fieldErrors) ==
    {i \in 1..Len(fieldErrors.extra_macs) : fieldErrors.extra_macs[i] # NoError}

\* C14 as stated: the positions with a field error are exactly the positions
\* whose entry does not match the six-octet colon-hex pattern.
C14_ErrorsAtInvalidEntries ==
    out.validated # None =>
        ErrorPositions(out.validated[1].fieldErrors)
            = {i \in 1..Len(values.extra_macs) :
                  ~MatchesMacPattern(values.extra_macs[i])}

\* C14 as amended: the positions with a field error are exactly the positions
\* whose entry is not empty and does not match the pattern, each carrying the
\* message "Invalid MAC address"; an empty entry is accepted, and the result
\* for a position is decided by the entry at that position alone.
C14_ErrorsAtNonEmptyInvalidEntries ==
    out.validated # None =>
        /\ Len(out.validated[1].fieldErrors.extra_macs) = Len(values.extra_macs)
        /\ \A i \in 1..Len(values.extra_macs) :
              out.validated[1].fieldErrors.extra_macs[i] =
                  IF /\ values.extra_macs[i] # EmptyString
                     /\ ~MatchesMacPattern(values.extra_macs[i])
                  THEN "Invalid MAC address"
                  ELSE NoError

\* ["AA:BB:CC:DD:EE:FF", "not-a-mac"]: one field error, on the second entry
C14_Witness ==
    /\ out.validated # None
    /\ values.extra_macs = <<MacUpper, NotAMac>>
    /\ ErrorPositions(out.validated[1].fieldErrors) = {2}

-----------------------------------------------------------------------------
(* Properties of the controller's life cycle *)

\* The state the controller rests in between two events.  Saved and Failed
\* are passed through inside the handler of the endpoint's answer: the
\* component that renders with machine.saved cleans the store up in the same
\* run (lines 103-108), and a failure leaves the form shown and idle.
Phase ==
    IF ~mounted THEN "Dismissed"
    ELSE IF ~allLoaded THEN "Loading"
    ELSE IF machineSaving THEN "Submitting"
    ELSE IF machineSaved THEN "Saved"
    ELSE "Ready"

\* the step passes through Saved: the component handles a success
ThroughSaved == out'.message # None

\* the step passes through Failed: the endpoint's answer is a failure payload
ThroughFailed ==
    /\ out'.answered # None
    /\ out'.message = None
    /\ machineErrors' # NoErrors

\* C15: the controller moves only along Loading -> Ready, Ready ->
\* Submitting (by a dispatching submit), Submitting -> Saved, Submitting ->
\* Failed, Failed -> Ready and Saved -> Ready (only with resetOnSave set,
\* otherwise the form navigates away); a controller that is opened starts in
\* Loading or Ready, and a failure leaves it in Ready with the submit open.
C15_LifeCycleEdges ==
    [][/\ Phase = "Dismissed" =>
             /\ Phase' \in {"Dismissed", "Loading", "Ready"}
             /\ mounted' => ~ThroughSaved /\ errors' = ""
       /\ Phase = "Loading" =>
             /\ Phase' \in {"Loading", "Ready", "Dismissed"}
             /\ ~ThroughSaved
             /\ ~ThroughFailed
       /\ Phase = "Ready" =>
             /\ Phase' \in {"Ready", "Submitting", "Dismissed"}
             /\ Phase' = "Submitting" <=> out'.dispatched # None
             /\ ~ThroughSaved
             /\ ~ThroughFailed
       /\ Phase = "Submitting" =>
             /\ Phase' \in {"Submitting", "Ready", "Dismissed"}
             /\ Phase' = "Submitting" => out'.answered = None
             /\ Phase' = "Ready" =>
                   \/ ThroughFailed /\ ~ThroughSaved
                   \/ ThroughSaved /\ resetOnSave /\ out'.navigated = None
                         /\ values' = initialValues'
             /\ Phase' = "Dismissed" =>
                   \/ out'.answered = None /\ ~ThroughSaved
                   \/ ThroughSaved /\ ~resetOnSave
                         /\ out'.navigated = Some("/machines")
       /\ Phase # "Saved"]_vars

-----------------------------------------------------------------------------
(* Properties of the command (SpecPure) *)

\* the positions of a list that hold a non-empty entry
NonEmptyPositions(list) == {i \in 1..Len(list) : list[i] # EmptyString}

\* the k-th smallest element of a set of positions
KthPosition(S, k) == CHOOSE i \in S : Cardinality({j \in S : j < i}) = k - 1

\* C16: the secondary-address list of a dispatched command has no empty
\* entry and is the submitted list without its empty entries, the others in
\* their original order.
C16_EmptyEntriesStripped ==
    out.dispatched # None =>
        LET sent == out.dispatched[1].extra_macs
            kept == NonEmptyPositions(values.extra_macs)
        IN  /\ \A k \in 1..Len(sent) : sent[k] # EmptyString
            /\ Len(sent) = Cardinality(kept)
            /\ \A k \in 1..Len(sent) :
                  sent[k] = values.extra_macs[KthPosition(kept, k)]

\* an empty row before a filled one: the command carries the filled one only
C16_Witness ==
    /\ out.dispatched # None
    /\ values.extra_macs = <<EmptyString, MacLower>>
    /\ out.dispatched[1].extra_macs = <<MacLower>>

-----------------------------------------------------------------------------
(* Properties of the command (Spec) *)

\* C17: the hostname of a dispatched command is the hostname of the form as
\* it is, the empty one included: for an empty hostname the command carries
\* the empty string while the name kept for the notification is "Machine".
C17_HostnameUnchanged ==
    out.dispatched # None =>
        /\ out.dispatched[1].hostname = values.hostname
        /\ values.hostname = "" =>
              /\ out.dispatched[1].hostname = ""
              /\ savingMachine = Saving("Machine")

C17_Witness ==
    /\ out.dispatched # None
    /\ values.hostname = ""
    /\ out.dispatched[1].hostname = ""
    /\ savingMachine = Saving("Machine")

\* the parameters of the variant the catalog holds under a name, taken from
\* the nested values; none when the catalog has no such variant
ParametersNamedBy(name, nested) ==
    {<<RulesNamedBy(name)[i].name, nested[RulesNamedBy(name)[i].name]>> :
        i \in 1..Len(RulesNamedBy(name))}

\* C18: the power parameters of a dispatched command are shaped for the
\* variant named by the command's own power_type (for no variant when the
\* catalog holds none of that name), whatever variants were selected before
\* the submit.
C18_ParametersOfOwnVariant ==
    out.dispatched # None =>
        /\ out.dispatched[1].power_type = values.power_type
        /\ out.dispatched[1].power_parameters.variant =
              IF NotInCatalog(out.dispatched[1].power_type)
              THEN ""
              ELSE out.dispatched[1].power_type
        /\ out.dispatched[1].power_parameters.parameters =
              ParametersNamedBy(out.dispatched[1].power_type, values.power_parameters)

\* a power address was typed for "ipmi", then "manual" was selected and
\* submitted: the command carries no parameter of "ipmi"
C18_Witness ==
    /\ out.dispatched # None
    /\ out.dispatched[1].power_type = "manual"
    /\ values.power_parameters.power_address = "10.0.0.1"
    /\ out.dispatched[1].power_parameters.parameters = {}

====
